---- MODULE Spec2Model ----
(***************************************************************************)
(* Model of the Schema 1 converters of scripts/schema1_to_schema2.py and   *)
(* scripts/schema1_to_zip.py.                                               *)
(*                                                                         *)
(* Text is a sequence of one-character strings.  The raw HTML input is a   *)
(* sequence of tokens: "<", ">", a tag name (with its leading "/" for an   *)
(* end tag) or a text character.  The tokenizer (html.parser.HTMLParser of *)
(* the standard library) is the environment: it delivers start-tag,        *)
(* end-tag and data events to the handlers of the two converter classes    *)
(* and may raise at any point of the input.                                *)
(***************************************************************************)
EXTENDS Integers, Sequences, FiniteSets, TLC

VARIABLES
    target,      \* which conversion call runs: "blocknote" | "markdown"
    pc,          \* "feed" (inside converter.feed) | "done" | "fault"
    events,      \* the Markup Events delivered to the handlers so far
    html,        \* the raw input: its tokens read so far (all of it at the end)
    bn,          \* the HTMLToBlockNoteConverter instance
    md,          \* the HTMLToMarkdownConverter instance
    result,      \* the value returned by html_to_blocknote / html_to_markdown
    schema1_data,  \* the Schema 1 input tree of a tree conversion
    tpc,           \* tree conversion: "start" | "converted" | "zipped"
    schema2_data,  \* the value returned by convert_schema1_to_schema2
    zip_entries,   \* the zf.writestr calls of convert_schema1_to_zip, in order
    stats          \* the counters returned by convert_schema1_to_zip

htmlVars == <<target, pc, events, html, bn, md, result>>
treeVars == <<schema1_data, tpc, schema2_data, zip_entries, stats>>
vars == <<htmlVars, treeVars>>

----------------------------------------------------------------------------
(* Bounds of the model *)

\* Number of Markup Events fed to one conversion call.
MaxEvents == 4

----------------------------------------------------------------------------
(* Text helpers *)

NL == "\n"

\* The backtick character (a string literal cannot hold it).
Backtick == "BACKTICK"

\* str.strip() / the regex class \s over the characters of the model.
Whitespace == {" ", NL, "\t", "\r"}

RECURSIVE Join(_)
\* ''.join(parts)
Join(parts) ==
    IF parts = <<>> THEN <<>> ELSE Head(parts) \o Join(Tail(parts))

RECURSIVE lstrip(_)
lstrip(s) ==
    IF s # <<>> /\ Head(s) \in Whitespace THEN lstrip(Tail(s)) ELSE s

RECURSIVE rstrip(_)
rstrip(s) ==
    IF s # <<>> /\ s[Len(s)] \in Whitespace
    THEN rstrip(SubSeq(s, 1, Len(s) - 1))
    ELSE s

\* str.strip()
strip(s) == rstrip(lstrip(s))

\* Index of the first ">" of s at or after position i, 0 when there is none.
RECURSIVE FindGt(_, _)
FindGt(s, i) ==
    IF i > Len(s) THEN 0
    ELSE IF s[i] = ">" THEN i
    ELSE FindGt(s, i + 1)

\* re.sub(r'<[^>]+>', '', s): leftmost non-overlapping matches of "<", one or
\* more characters other than ">", then ">".
RECURSIVE strip_tags(_)
strip_tags(s) ==
    IF s = <<>> THEN <<>>
    ELSE IF Head(s) = "<"
         THEN LET j == FindGt(s, 2)
              IN  IF j >= 3
                  THEN strip_tags(SubSeq(s, j + 1, Len(s)))
                  ELSE <<Head(s)>> \o strip_tags(Tail(s))
         ELSE <<Head(s)>> \o strip_tags(Tail(s))

----------------------------------------------------------------------------
(* Markup Events and the raw text they come from *)

StartTag(tag, href) == [kind |-> "start", tag |-> tag, href |-> href, data |-> <<>>]
EndTag(tag)         == [kind |-> "end",   tag |-> tag, href |-> "",   data |-> <<>>]
Text(data)          == [kind |-> "data",  tag |-> "",  href |-> "",   data |-> data]

\* The raw tokens of one event: <tag>, </tag> or the text itself.
RawOf(e) ==
    CASE e.kind = "start" -> <<"<", e.tag, ">">>
      [] e.kind = "end"   -> <<"<", "/" \o e.tag, ">">>
      [] OTHER            -> e.data

Headings == {"h1", "h2", "h3", "h4", "h5", "h6"}

\* int(tag[1])
Level(tag) ==
    CASE tag = "h1" -> 1 [] tag = "h2" -> 2 [] tag = "h3" -> 3
      [] tag = "h4" -> 4 [] tag = "h5" -> 5 [] OTHER -> 6

----------------------------------------------------------------------------
(* HTMLToBlockNoteConverter *)

\* A style never set is absent from the current_styles dict.
NoLink == "<absent>"
NoStyles == [bold |-> FALSE, italic |-> FALSE, underline |-> FALSE, link |-> NoLink]

\* current_block = None
NoBlock == [type |-> "none", level |-> 0, content |-> <<>>]

\* _create_block: the id is a fresh uuid and the props are constant; the model
\* keeps the type, the heading level and the content.
create_block(block_type) == [type |-> block_type, level |-> 0, content |-> <<>>]

\* HTMLToBlockNoteConverter.__init__
BNInit ==
    [blocks |-> <<>>, current_block |-> NoBlock, current_content |-> <<>>,
     current_styles |-> NoStyles, pending_text |-> <<>>]

flush_text(c) ==
    IF c.pending_text # <<>>
    THEN LET text == Join(c.pending_text)
         IN  [c EXCEPT
                !.current_content =
                    IF text # <<>>
                    THEN Append(@, [text |-> text, styles |-> c.current_styles])
                    ELSE @,
                !.pending_text = <<>>]
    ELSE c

\* Mutant: the flushed runs are not cleared from current_content.
flush_block_no_reset(c) ==
    LET c1 == flush_text(c)
    IN  IF c1.current_content # <<>>
        THEN [c1 EXCEPT
                !.blocks = Append(@, [create_block("paragraph")
                                        EXCEPT !.content = c1.current_content])]
        ELSE c1

\* Mutant: flushing a block also clears the style set.
flush_block_reset_styles(c) ==
    LET c1 == flush_text(c)
    IN  IF c1.current_content # <<>>
        THEN [c1 EXCEPT
                !.blocks = Append(@, [create_block("paragraph")
                                        EXCEPT !.content = c1.current_content]),
                !.current_content = <<>>,
                !.current_styles = NoStyles]
        ELSE c1

flush_block(c) ==
    LET c1 == flush_text(c)
    IN  IF c1.current_content # <<>>
        THEN [c1 EXCEPT
                !.blocks = Append(@, [create_block("paragraph")
                                        EXCEPT !.content = c1.current_content]),
                !.current_content = <<>>]
        ELSE c1

\* Mutant: a tag that is not handled flushes the pending text.
bn_handle_starttag_flush_unknown(c, tag, href) ==
    CASE tag = "p"  -> flush_block(c)
      [] tag = "br" -> flush_block(c)
      [] tag \in {"strong", "b"} ->
            [flush_text(c) EXCEPT !.current_styles.bold = TRUE]
      [] tag \in {"em", "i"} ->
            [flush_text(c) EXCEPT !.current_styles.italic = TRUE]
      [] tag = "u" ->
            [flush_text(c) EXCEPT !.current_styles.underline = TRUE]
      [] tag \in Headings ->
            [flush_block(c) EXCEPT
                !.current_block = [create_block("heading") EXCEPT !.level = Level(tag)]]
      [] tag = "a" ->
            [flush_text(c) EXCEPT !.current_styles.link = href]
      [] OTHER -> flush_text(c)

\* Mutant: a link start tag keeps the href that is already pending.
bn_handle_starttag_keep_href(c, tag, href) ==
    CASE tag = "p"  -> flush_block(c)
      [] tag = "br" -> flush_block(c)
      [] tag \in {"strong", "b"} ->
            [flush_text(c) EXCEPT !.current_styles.bold = TRUE]
      [] tag \in {"em", "i"} ->
            [flush_text(c) EXCEPT !.current_styles.italic = TRUE]
      [] tag = "u" ->
            [flush_text(c) EXCEPT !.current_styles.underline = TRUE]
      [] tag \in Headings ->
            [flush_block(c) EXCEPT
                !.current_block = [create_block("heading") EXCEPT !.level = Level(tag)]]
      [] tag = "a" ->
            [flush_text(c) EXCEPT
                !.current_styles.link = IF @ = NoLink THEN href ELSE @]
      [] OTHER -> c

bn_handle_starttag(c, tag, href) ==
    CASE tag = "p"  -> flush_block(c)
      [] tag = "br" -> flush_block(c)
      [] tag \in {"strong", "b"} ->
            [flush_text(c) EXCEPT !.current_styles.bold = TRUE]
      [] tag \in {"em", "i"} ->
            [flush_text(c) EXCEPT !.current_styles.italic = TRUE]
      [] tag = "u" ->
            [flush_text(c) EXCEPT !.current_styles.underline = TRUE]
      [] tag \in Headings ->
            [flush_block(c) EXCEPT
                !.current_block = [create_block("heading") EXCEPT !.level = Level(tag)]]
      [] tag = "a" ->
            [flush_text(c) EXCEPT !.current_styles.link = href]
      [] OTHER -> c

\* Mutant: the bold end tag changes the style set without flushing the
\* pending text first.
bn_handle_endtag_no_flush(c, tag) ==
    CASE tag = "p" -> flush_block(c)
      [] tag \in {"strong", "b"} ->
            [c EXCEPT !.current_styles.bold = FALSE]
      [] tag \in {"em", "i"} ->
            [flush_text(c) EXCEPT !.current_styles.italic = FALSE]
      [] tag = "u" ->
            [flush_text(c) EXCEPT !.current_styles.underline = FALSE]
      [] tag \in Headings ->
            LET c1 == flush_text(c)
            IN  IF c1.current_block # NoBlock
                THEN [c1 EXCEPT
                        !.blocks = Append(@, [c1.current_block
                                                EXCEPT !.content = c1.current_content]),
                        !.current_block = NoBlock,
                        !.current_content = <<>>]
                ELSE c1
      [] tag = "a" ->
            [flush_text(c) EXCEPT !.current_styles.link = NoLink]
      [] OTHER -> c

bn_handle_endtag(c, tag) ==
    CASE tag = "p" -> flush_block(c)
      [] tag \in {"strong", "b"} ->
            [flush_text(c) EXCEPT !.current_styles.bold = FALSE]
      [] tag \in {"em", "i"} ->
            [flush_text(c) EXCEPT !.current_styles.italic = FALSE]
      [] tag = "u" ->
            [flush_text(c) EXCEPT !.current_styles.underline = FALSE]
      [] tag \in Headings ->
            LET c1 == flush_text(c)
            IN  IF c1.current_block # NoBlock
                THEN [c1 EXCEPT
                        !.blocks = Append(@, [c1.current_block
                                                EXCEPT !.content = c1.current_content]),
                        !.current_block = NoBlock,
                        !.current_content = <<>>]
                ELSE c1
      [] tag = "a" ->
            [flush_text(c) EXCEPT !.current_styles.link = NoLink]
      [] OTHER -> c

bn_handle_data(c, data) == [c EXCEPT !.pending_text = Append(@, data)]

\* get_blocknote_json: flush what is left and return the block list.
get_blocknote_json(c) == flush_block(c).blocks

\* Mutant: the block list is returned without the final filter.
NonEmptyBlocks_unfiltered(bs) == bs

\* [b for b in blocks if b.get("content")]
RECURSIVE NonEmptyBlocks(_)
NonEmptyBlocks(bs) ==
    IF bs = <<>> THEN <<>>
    ELSE IF Head(bs).content # <<>>
         THEN <<Head(bs)>> \o NonEmptyBlocks(Tail(bs))
         ELSE NonEmptyBlocks(Tail(bs))

\* Mutant: the cleaned text is stored without text.strip().
blocknote_fallback_untrimmed(raw) ==
    LET text == strip_tags(raw)
    IN  IF strip(text) # <<>>
        THEN << [create_block("paragraph") EXCEPT
                   !.content = << [text |-> text, styles |-> NoStyles] >>] >>
        ELSE <<>>

\* The except branch of html_to_blocknote: one paragraph with the cleaned text.
blocknote_fallback(raw) ==
    LET text == strip_tags(raw)
    IN  IF strip(text) # <<>>
        THEN << [create_block("paragraph") EXCEPT
                   !.content = << [text |-> strip(text), styles |-> NoStyles] >>] >>
        ELSE <<>>

----------------------------------------------------------------------------
(* HTMLToMarkdownConverter *)

\* HTMLToMarkdownConverter.__init__; result is the list of emitted pieces.
MDInit ==
    [result |-> <<>>, current_text |-> <<>>, in_list |-> FALSE,
     list_type |-> "None", list_item_count |-> 0]

emit(c, piece) == [c EXCEPT !.result = Append(@, piece)]

\* Mutant: the level of the heading is ignored, one character is emitted.
Repeat_once(ch, n) == <<ch>>

RECURSIVE Repeat(_, _)
\* ch * n
Repeat(ch, n) == IF n <= 0 THEN <<>> ELSE <<ch>> \o Repeat(ch, n - 1)

Digit(d) ==
    CASE d = 0 -> "0" [] d = 1 -> "1" [] d = 2 -> "2" [] d = 3 -> "3"
      [] d = 4 -> "4" [] d = 5 -> "5" [] d = 6 -> "6" [] d = 7 -> "7"
      [] d = 8 -> "8" [] OTHER -> "9"

RECURSIVE IntToStr(_)
\* str(n) of a non-negative integer
IntToStr(n) ==
    IF n < 10 THEN <<Digit(n)>> ELSE IntToStr(n \div 10) \o <<Digit(n % 10)>>

md_handle_starttag(c, tag, href) ==
    CASE tag = "p"  -> c
      [] tag = "br" -> emit(c, <<NL, NL>>)
      [] tag \in {"strong", "b"} -> emit(c, <<"*", "*">>)
      [] tag \in {"em", "i"} -> emit(c, <<"*">>)
      [] tag = "u" -> c
      [] tag \in Headings -> emit(c, Repeat("#", Level(tag)) \o <<" ">>)
      [] tag = "a" ->
            [emit(c, <<"[">>) EXCEPT
                !.current_text = Append(@, [kind |-> "link", href |-> href])]
      [] tag = "ul" -> [c EXCEPT !.in_list = TRUE, !.list_type = "ul"]
      [] tag = "ol" ->
            [c EXCEPT !.in_list = TRUE, !.list_type = "ol", !.list_item_count = 0]
      [] tag = "li" ->
            IF c.list_type = "ul"
            THEN emit(c, <<"-", " ">>)
            ELSE LET n == c.list_item_count + 1
                 IN  [emit(c, IntToStr(n) \o <<".", " ">>) EXCEPT
                        !.list_item_count = n]
      [] tag = "blockquote" -> emit(c, <<">", " ">>)
      [] tag = "code" -> emit(c, <<Backtick>>)
      [] tag = "pre" -> emit(c, <<Backtick, Backtick, Backtick, NL>>)
      [] OTHER -> c

\* Mutant: a link end tag takes the oldest pending href, not the newest.
md_handle_endtag_oldest_href(c, tag) ==
    CASE tag = "p" -> emit(c, <<NL, NL>>)
      [] tag \in {"strong", "b"} -> emit(c, <<"*", "*">>)
      [] tag \in {"em", "i"} -> emit(c, <<"*">>)
      [] tag \in Headings -> emit(c, <<NL, NL>>)
      [] tag = "a" ->
            IF c.current_text # <<>> /\ c.current_text[Len(c.current_text)].kind = "link"
            THEN LET href == c.current_text[1].href
                 IN  [emit(c, <<"]", "(", href, ")">>) EXCEPT
                        !.current_text = Tail(@)]
            ELSE c
      [] tag \in {"ul", "ol"} ->
            [emit(c, <<NL>>) EXCEPT !.in_list = FALSE, !.list_type = "None"]
      [] tag = "li" -> emit(c, <<NL>>)
      [] tag = "blockquote" -> emit(c, <<NL>>)
      [] tag = "code" -> emit(c, <<Backtick>>)
      [] tag = "pre" -> emit(c, <<NL, Backtick, Backtick, Backtick, NL>>)
      [] OTHER -> c

md_handle_endtag(c, tag) ==
    CASE tag = "p" -> emit(c, <<NL, NL>>)
      [] tag \in {"strong", "b"} -> emit(c, <<"*", "*">>)
      [] tag \in {"em", "i"} -> emit(c, <<"*">>)
      [] tag \in Headings -> emit(c, <<NL, NL>>)
      [] tag = "a" ->
            IF c.current_text # <<>> /\ c.current_text[Len(c.current_text)].kind = "link"
            THEN LET href == c.current_text[Len(c.current_text)].href
                 IN  [emit(c, <<"]", "(", href, ")">>) EXCEPT
                        !.current_text = SubSeq(@, 1, Len(@) - 1)]
            ELSE c
      [] tag \in {"ul", "ol"} ->
            [emit(c, <<NL>>) EXCEPT !.in_list = FALSE, !.list_type = "None"]
      [] tag = "li" -> emit(c, <<NL>>)
      [] tag = "blockquote" -> emit(c, <<NL>>)
      [] tag = "code" -> emit(c, <<Backtick>>)
      [] tag = "pre" -> emit(c, <<NL, Backtick, Backtick, Backtick, NL>>)
      [] OTHER -> c

md_handle_data(c, data) == emit(c, data)

\* ''.join(self.result).strip()
get_markdown(c) == strip(Join(c.result))

\* Length of the run of newlines at the head of s.
RECURSIVE NewlineRun(_)
NewlineRun(s) ==
    IF s # <<>> /\ Head(s) = NL THEN 1 + NewlineRun(Tail(s)) ELSE 0

\* re.sub(r'\n{3,}', '\n\n', s): the match is greedy, so it takes a whole run.
RECURSIVE collapse_newlines(_)
collapse_newlines(s) ==
    IF s = <<>> THEN <<>>
    ELSE LET k == NewlineRun(s)
         IN  IF k >= 3
             THEN <<NL, NL>> \o collapse_newlines(SubSeq(s, k + 1, Len(s)))
             ELSE <<Head(s)>> \o collapse_newlines(Tail(s))

\* Mutant: the newline runs are left as emitted.
markdown_result_no_collapse(c) == get_markdown(c)

\* The try branch of html_to_markdown after converter.feed.
markdown_result(c) == collapse_newlines(get_markdown(c))

\* The except branch of html_to_markdown: the cleaned text as it is.
markdown_fallback(raw) == strip_tags(raw)

----------------------------------------------------------------------------
(* Whole-document conversions, as convert_document and the archive call them *)

RECURSIVE bn_feed(_, _)
\* converter.feed(html) when the tokenizer does not raise: every event goes
\* to its handler, in document order.
bn_feed(c, es) ==
    IF es = <<>> THEN c
    ELSE LET e == Head(es)
             c1 == CASE e.kind = "start" -> bn_handle_starttag(c, e.tag, e.href)
                     [] e.kind = "end"   -> bn_handle_endtag(c, e.tag)
                     [] OTHER            -> bn_handle_data(c, e.data)
         IN  bn_feed(c1, Tail(es))

html_to_blocknote(content) ==
    IF content = <<>> THEN <<>>
    ELSE NonEmptyBlocks(get_blocknote_json(bn_feed(BNInit, content)))

RECURSIVE md_feed(_, _)
md_feed(c, es) ==
    IF es = <<>> THEN c
    ELSE LET e == Head(es)
             c1 == CASE e.kind = "start" -> md_handle_starttag(c, e.tag, e.href)
                     [] e.kind = "end"   -> md_handle_endtag(c, e.tag)
                     [] OTHER            -> md_handle_data(c, e.data)
         IN  md_feed(c1, Tail(es))

html_to_markdown(content) ==
    IF content = <<>> THEN <<>> ELSE markdown_result(md_feed(MDInit, content))

RECURSIVE TextParts(_)
\* count_words: the text of every text run of every block, in order.
TextParts(blocks) ==
    IF blocks = <<>> THEN <<>>
    ELSE [i \in 1..Len(Head(blocks).content) |-> Head(blocks).content[i].text]
            \o TextParts(Tail(blocks))

RECURSIVE JoinWith(_, _)
\* sep.join(parts)
JoinWith(sep, parts) ==
    IF parts = <<>> THEN <<>>
    ELSE IF Len(parts) = 1 THEN Head(parts)
    ELSE Head(parts) \o sep \o JoinWith(sep, Tail(parts))

\* len(s.split()): the number of maximal runs of non-whitespace characters.
SplitCount(s) ==
    Cardinality({i \in 1..Len(s) :
        s[i] \notin Whitespace /\ (i = 1 \/ s[i - 1] \in Whitespace)})

\* Mutant: the texts are joined without the separating space.
count_words_unspaced(blocknote_content) ==
    SplitCount(Join(TextParts(blocknote_content)))

count_words(blocknote_content) ==
    SplitCount(JoinWith(<<" ">>, TextParts(blocknote_content)))

----------------------------------------------------------------------------
(* Characters of titles *)

Digits == <<"0", "1", "2", "3", "4", "5", "6", "7", "8", "9">>
UpperCase == <<"A", "B", "C", "D", "E", "F", "G", "H", "I", "J", "K", "L", "M",
               "N", "O", "P", "Q", "R", "S", "T", "U", "V", "W", "X", "Y", "Z">>
LowerCase == <<"a", "b", "c", "d", "e", "f", "g", "h", "i", "j", "k", "l", "m",
               "n", "o", "p", "q", "r", "s", "t", "u", "v", "w", "x", "y", "z">>

\* The characters of the model in code point order.
CodePoints ==
    <<"\t", NL, "\r", " ", "!", "-", ".", "/">> \o Digits \o UpperCase
        \o <<"_">> \o LowerCase

Range(f) == {f[i] : i \in DOMAIN f}

Ord(ch) == CHOOSE i \in 1..Len(CodePoints) : CodePoints[i] = ch

isdigit(ch) == ch \in Range(Digits)

\* The regex class \w
IsWordChar(ch) == ch \in Range(Digits) \cup Range(UpperCase) \cup Range(LowerCase) \cup {"_"}

lower_char(ch) ==
    IF ch \in Range(UpperCase)
    THEN LowerCase[CHOOSE i \in 1..Len(UpperCase) : UpperCase[i] = ch]
    ELSE ch

\* str.lower()
lower(s) == [i \in 1..Len(s) |-> lower_char(s[i])]

RECURSIVE int(_)
\* int(part) of a string of decimal digits
int(part) ==
    IF part = <<>> THEN 0
    ELSE 10 * int(SubSeq(part, 1, Len(part) - 1)) + (Ord(part[Len(part)]) - Ord("0"))

\* s.endswith('.md')
endswith_md(s) ==
    Len(s) >= 3 /\ SubSeq(s, Len(s) - 2, Len(s)) = <<".", "m", "d">>

----------------------------------------------------------------------------
(* natural_sort_key and the sorts *)

RECURSIVE split_digits(_)
\* [part for part in re.split(r'(\d+)', text) if part]: the maximal runs of
\* digits and of other characters, in order.
split_digits(text) ==
    IF text = <<>> THEN <<>>
    ELSE LET rest == split_digits(Tail(text))
         IN  IF rest # <<>> /\ isdigit(Head(rest)[1]) = isdigit(Head(text))
             THEN << <<Head(text)>> \o Head(rest) >> \o Tail(rest)
             ELSE << <<Head(text)>> >> \o rest

\* Mutant: a number is kept as text, so digit runs compare as strings.
convert_lexical(part) ==
    IF \A i \in 1..Len(part) : isdigit(part[i])
    THEN [rank |-> 1, num |-> 0, text |-> part]
    ELSE [rank |-> 0, num |-> 0, text |-> lower(part)]

\* convert(part): (1, int(part)) for a number, (0, part.lower()) for text.
convert(part) ==
    IF \A i \in 1..Len(part) : isdigit(part[i])
    THEN [rank |-> 1, num |-> int(part), text |-> <<>>]
    ELSE [rank |-> 0, num |-> 0, text |-> lower(part)]

natural_sort_key(text) ==
    LET parts == split_digits(text)
    IN  [i \in 1..Len(parts) |-> convert(parts[i])]

RECURSIVE str_less(_, _)
\* s < t on strings: by code point, a proper prefix first.
str_less(s, t) ==
    IF t = <<>> THEN FALSE
    ELSE IF s = <<>> THEN TRUE
    ELSE IF Head(s) # Head(t) THEN Ord(Head(s)) < Ord(Head(t))
    ELSE str_less(Tail(s), Tail(t))

\* a < b on the tuples of a key
part_less(a, b) ==
    \/ a.rank < b.rank
    \/ a.rank = b.rank /\ a.num < b.num
    \/ a.rank = b.rank /\ a.num = b.num /\ str_less(a.text, b.text)

RECURSIVE key_less(_, _)
\* k1 < k2 on lists: the first differing element decides, a proper prefix first.
key_less(k1, k2) ==
    IF k2 = <<>> THEN FALSE
    ELSE IF k1 = <<>> THEN TRUE
    ELSE IF Head(k1) # Head(k2) THEN part_less(Head(k1), Head(k2))
    ELSE key_less(Tail(k1), Tail(k2))

RECURSIVE insert_document(_, _)
insert_document(d, sorted) ==
    IF sorted = <<>> THEN <<d>>
    ELSE IF key_less(natural_sort_key(d.title), natural_sort_key(Head(sorted).title))
         THEN <<d>> \o sorted
         ELSE <<Head(sorted)>> \o insert_document(d, Tail(sorted))

RECURSIVE sort_documents(_)
\* documents.sort(key=lambda d: natural_sort_key(d.get('title', ''))): stable.
sort_documents(documents) ==
    IF documents = <<>> THEN <<>>
    ELSE insert_document(documents[Len(documents)],
                         sort_documents(SubSeq(documents, 1, Len(documents) - 1)))

RECURSIVE insert_folder_unstable(_, _)
\* Mutant: a folder goes before the folders of equal sort value.
insert_folder_unstable(f, sorted) ==
    IF sorted = <<>> THEN <<f>>
    ELSE IF f.sort <= Head(sorted).sort
         THEN <<f>> \o sorted
         ELSE <<Head(sorted)>> \o insert_folder_unstable(f, Tail(sorted))

RECURSIVE insert_folder(_, _)
insert_folder(f, sorted) ==
    IF sorted = <<>> THEN <<f>>
    ELSE IF f.sort < Head(sorted).sort
         THEN <<f>> \o sorted
         ELSE <<Head(sorted)>> \o insert_folder(f, Tail(sorted))

RECURSIVE sorted_folders(_)
\* sorted(folders, key=lambda f: f.get('sort', 0)): stable.
sorted_folders(folders) ==
    IF folders = <<>> THEN <<>>
    ELSE insert_folder(folders[Len(folders)],
                       sorted_folders(SubSeq(folders, 1, Len(folders) - 1)))

----------------------------------------------------------------------------
(* Naming utilities *)

\* Mutant: the hyphen is missing from the characters kept.
remove_special_no_hyphen(s) ==
    SelectSeq(s, LAMBDA ch : IsWordChar(ch) \/ ch \in Whitespace)

\* re.sub(r'[^\w\s-]', '', s)
remove_special(s) ==
    SelectSeq(s, LAMBDA ch : IsWordChar(ch) \/ ch \in Whitespace \/ ch = "-")

RECURSIVE replace_runs(_, _, _)
\* re.sub(r'X+', rep, s) for the character class X = chars
replace_runs(s, chars, rep) ==
    IF s = <<>> THEN <<>>
    ELSE IF Head(s) \in chars
         THEN IF Len(s) >= 2 /\ s[2] \in chars
              THEN replace_runs(Tail(s), chars, rep)
              ELSE <<rep>> \o replace_runs(Tail(s), chars, rep)
         ELSE <<Head(s)>> \o replace_runs(Tail(s), chars, rep)

RECURSIVE strip_char(_, _)
\* s.strip(ch)
strip_char(s, ch) ==
    IF s # <<>> /\ Head(s) = ch THEN strip_char(Tail(s), ch)
    ELSE IF s # <<>> /\ s[Len(s)] = ch THEN strip_char(SubSeq(s, 1, Len(s) - 1), ch)
    ELSE s

\* slugify_folder_name of schema1_to_schema2.py
slugify_folder_name(title) ==
    LET slug1 == lower(strip(title))
        slug2 == remove_special(slug1)
        slug3 == replace_runs(slug2, Whitespace, "-")
        slug4 == replace_runs(slug3, {"-"}, "-")
    IN  strip_char(slug4, "-")

\* slugify_folder of schema1_to_zip.py: the same five steps
slugify_folder(title) ==
    LET slug1 == lower(strip(title))
        slug2 == remove_special(slug1)
        slug3 == replace_runs(slug2, Whitespace, "-")
        slug4 == replace_runs(slug3, {"-"}, "-")
    IN  strip_char(slug4, "-")

slugify_filename(title) ==
    LET filename1 == strip(title)
        filename2 == IF endswith_md(lower(filename1))
                     THEN SubSeq(filename1, 1, Len(filename1) - 3)
                     ELSE filename1
        filename3 == remove_special(filename2)
        filename4 == replace_runs(filename3, Whitespace, "_")
    IN  filename4 \o <<".", "m", "d">>

----------------------------------------------------------------------------
(* schema1_to_schema2.py: the tree converter *)

\* dict.get(key) is None: the field is not in the JSON object.
Absent == "<absent>"

\* An optional number: Python's None, or the number.
None == <<>>
Some(n) == <<n>>

\* doc.get('status') not in (None, 'active'), and the same test on a folder
skipped_status(status) == status \notin {Absent, "active"}

convert_document(doc, order) ==
    LET blocknote_content == html_to_blocknote(doc.content)
    IN  [type |-> "manuscript",
         title |-> IF endswith_md(lower(doc.title))
                   THEN SubSeq(doc.title, 1, Len(doc.title) - 3)
                   ELSE doc.title,
         content |-> blocknote_content,
         synopsis |-> doc.summary,   \* '' stands for None
         status |-> IF doc.status \in {Absent, "active"} THEN "draft" ELSE doc.status,
         order |-> order,
         word_count |-> count_words(blocknote_content)]

RECURSIVE collect_documents_inactive_first(_, _, _)
\* Mutant: the status test comes first and lets a trashed active document by.
collect_documents_inactive_first(documentIds, docs_by_id, trash_doc_ids) ==
    IF documentIds = <<>> THEN <<>>
    ELSE LET doc_id == Head(documentIds)
             rest == collect_documents_inactive_first(Tail(documentIds), docs_by_id,
                                                      trash_doc_ids)
         IN  IF doc_id \notin DOMAIN docs_by_id THEN rest
             ELSE IF skipped_status(docs_by_id[doc_id].status) THEN rest
             ELSE <<convert_document(docs_by_id[doc_id], 0)>> \o rest

RECURSIVE collect_documents(_, _, _)
\* The loop of convert_folder over folder['documentIds'].
collect_documents(documentIds, docs_by_id, trash_doc_ids) ==
    IF documentIds = <<>> THEN <<>>
    ELSE LET doc_id == Head(documentIds)
             rest == collect_documents(Tail(documentIds), docs_by_id, trash_doc_ids)
         IN  IF doc_id \in trash_doc_ids THEN rest
             ELSE IF doc_id \notin DOMAIN docs_by_id THEN rest
             ELSE IF skipped_status(docs_by_id[doc_id].status) THEN rest
             ELSE <<convert_document(docs_by_id[doc_id], 0)>> \o rest

\* for idx, doc in enumerate(documents): doc['order'] = idx
reassign_order(documents) ==
    [i \in 1..Len(documents) |-> [documents[i] EXCEPT !.order = i - 1]]

\* Mutant: a folder without documents is converted like any other.
convert_folder_keep_empty(folder, docs_by_id, trash_doc_ids, order) ==
    LET documents == collect_documents(folder.documentIds, docs_by_id, trash_doc_ids)
    IN  << [name |-> slugify_folder_name(folder.title),
            type |-> "manuscript",
            order |-> order,
            is_default |-> FALSE,
            documents |-> reassign_order(sort_documents(documents))] >>

\* convert_folder; <<>> stands for the None of a folder without documents,
\* <<folder>> for a converted folder.
convert_folder(folder, docs_by_id, trash_doc_ids, order) ==
    LET documents == collect_documents(folder.documentIds, docs_by_id, trash_doc_ids)
    IN  IF documents = <<>> THEN <<>>
        ELSE << [name |-> slugify_folder_name(folder.title),
                 type |-> "manuscript",
                 order |-> order,
                 is_default |-> FALSE,
                 documents |-> reassign_order(sort_documents(documents))] >>

RECURSIVE convert_folders(_, _, _, _)
\* The loop of convert_schema1_to_schema2 over sorted_folders; converted_folders
\* is the list built so far and folder_order is its length.
convert_folders(folders, data, converted_folders, folder_order) ==
    IF folders = <<>> THEN converted_folders
    ELSE LET folder == Head(folders)
             rest == Tail(folders)
         IN  IF folder.id \in data.trash.folderIds
             THEN convert_folders(rest, data, converted_folders, folder_order)
             ELSE IF skipped_status(folder.status)
             THEN convert_folders(rest, data, converted_folders, folder_order)
             ELSE LET converted_folder ==
                          convert_folder(folder, data.documentsById,
                                         data.trash.documentIds, folder_order)
                  IN  IF converted_folder = <<>>
                      THEN convert_folders(rest, data, converted_folders, folder_order)
                      ELSE convert_folders(rest, data,
                                           converted_folders \o converted_folder,
                                           folder_order + 1)

\* Mutant: the folders are counted instead of their documents.
total_documents_folders(converted_folders) == Len(converted_folders)

RECURSIVE total_documents(_)
\* sum(len(f.get('documents', [])) for f in converted_folders)
total_documents(converted_folders) ==
    IF converted_folders = <<>> THEN 0
    ELSE Len(Head(converted_folders).documents) + total_documents(Tail(converted_folders))

\* title.replace(' ', '_')
underscore_spaces(title) ==
    [i \in 1..Len(title) |-> IF title[i] = " " THEN "_" ELSE title[i]]

convert_schema1_to_schema2(data) ==
    LET converted_folders == convert_folders(sorted_folders(data.folders), data, <<>>, 0)
        total_docs == total_documents(converted_folders)
    IN  [title |-> underscore_spaces(data.title),
         number_of_chapters |-> IF total_docs > 0 THEN Some(total_docs) ELSE None,
         status |-> "draft",
         folders |-> converted_folders]

----------------------------------------------------------------------------
(* schema1_to_zip.py: the archive converter *)

\* The stats dict at the start of convert_schema1_to_zip.
StatsInit ==
    [folders_processed |-> 0, documents_processed |-> 0,
     documents_skipped_trash |-> 0, documents_skipped_missing |-> 0]

RECURSIVE zip_collect_missing_first(_, _, _, _)
\* Mutant: the lookup comes before the trash test.
zip_collect_missing_first(documentIds, docs_by_id, trash_doc_ids, acc) ==
    IF documentIds = <<>> THEN acc
    ELSE LET doc_id == Head(documentIds)
             rest == Tail(documentIds)
         IN  IF doc_id \notin DOMAIN docs_by_id
             THEN zip_collect_missing_first(rest, docs_by_id, trash_doc_ids,
                      [acc EXCEPT !.stats.documents_skipped_missing = @ + 1])
             ELSE IF doc_id \in trash_doc_ids
             THEN zip_collect_missing_first(rest, docs_by_id, trash_doc_ids,
                      [acc EXCEPT !.stats.documents_skipped_trash = @ + 1])
             ELSE IF skipped_status(docs_by_id[doc_id].status)
             THEN zip_collect_missing_first(rest, docs_by_id, trash_doc_ids, acc)
             ELSE zip_collect_missing_first(rest, docs_by_id, trash_doc_ids,
                      [acc EXCEPT !.folder_docs = Append(@, docs_by_id[doc_id])])

RECURSIVE zip_collect(_, _, _, _)
\* The first loop over folder['documentIds']: acc holds folder_docs and stats.
zip_collect(documentIds, docs_by_id, trash_doc_ids, acc) ==
    IF documentIds = <<>> THEN acc
    ELSE LET doc_id == Head(documentIds)
             rest == Tail(documentIds)
         IN  IF doc_id \in trash_doc_ids
             THEN zip_collect(rest, docs_by_id, trash_doc_ids,
                      [acc EXCEPT !.stats.documents_skipped_trash = @ + 1])
             ELSE IF doc_id \notin DOMAIN docs_by_id
             THEN zip_collect(rest, docs_by_id, trash_doc_ids,
                      [acc EXCEPT !.stats.documents_skipped_missing = @ + 1])
             ELSE IF skipped_status(docs_by_id[doc_id].status)
             THEN zip_collect(rest, docs_by_id, trash_doc_ids, acc)
             ELSE zip_collect(rest, docs_by_id, trash_doc_ids,
                      [acc EXCEPT !.folder_docs = Append(@, docs_by_id[doc_id])])

RECURSIVE zip_write_documents_sorted(_, _, _)
\* Mutant: the files are written in natural-sort order of their titles.
zip_write_documents_sorted(folder_docs, folder_slug, acc) ==
    IF folder_docs = <<>> THEN acc
    ELSE LET docs == sort_documents(folder_docs)
             doc == Head(docs)
             file_path == folder_slug \o <<"/">> \o slugify_filename(doc.title)
         IN  zip_write_documents_sorted(Tail(docs), folder_slug,
                 [acc EXCEPT
                    !.entries = Append(@, [name |-> file_path,
                                           data |-> html_to_markdown(doc.content)]),
                    !.stats.documents_processed = @ + 1])

RECURSIVE zip_write_documents(_, _, _)
\* The second loop: one zf.writestr per document of folder_docs.
zip_write_documents(folder_docs, folder_slug, acc) ==
    IF folder_docs = <<>> THEN acc
    ELSE LET doc == Head(folder_docs)
             file_path == folder_slug \o <<"/">> \o slugify_filename(doc.title)
         IN  zip_write_documents(Tail(folder_docs), folder_slug,
                 [acc EXCEPT
                    !.entries = Append(@, [name |-> file_path,
                                           data |-> html_to_markdown(doc.content)]),
                    !.stats.documents_processed = @ + 1])

RECURSIVE zip_folders(_, _, _)
\* The loop over sorted_folders: acc holds the entries written and stats.
zip_folders(folders, data, acc) ==
    IF folders = <<>> THEN acc
    ELSE LET folder == Head(folders)
             rest == Tail(folders)
         IN  IF folder.id \in data.trash.folderIds
             THEN zip_folders(rest, data, acc)
             ELSE IF skipped_status(folder.status)
             THEN zip_folders(rest, data, acc)
             ELSE LET folder_slug == slugify_folder(folder.title)
                      collected ==
                          zip_collect(folder.documentIds, data.documentsById,
                                      data.trash.documentIds,
                                      [folder_docs |-> <<>>, stats |-> acc.stats])
                  IN  IF collected.folder_docs = <<>>
                      THEN zip_folders(rest, data,
                                       [acc EXCEPT !.stats = collected.stats])
                      ELSE zip_folders(rest, data,
                               zip_write_documents(collected.folder_docs, folder_slug,
                                   [entries |-> Append(acc.entries,
                                        [name |-> folder_slug \o <<"/">>, data |-> <<>>]),
                                    stats |-> [collected.stats EXCEPT
                                                 !.folders_processed = @ + 1]]))

\* convert_schema1_to_zip: the entries written to the archive and the stats.
convert_schema1_to_zip(data) ==
    zip_folders(sorted_folders(data.folders), data,
                [entries |-> <<>>, stats |-> StatsInit])

----------------------------------------------------------------------------
(* One call of html_to_blocknote or html_to_markdown, event by event *)

\* Vocabulary of the event streams explored.
BNStartTags == {"p", "br", "strong", "h2", "a", "li"}
BNEndTags   == {"p", "strong", "h2", "a"}
MDStartTags == {"br", "strong", "ol", "li", "pre"}
MDEndTags   == {"p", "h2", "li", "pre"}
Hrefs       == {"u"}
DataPool    == { <<"x">>, <<" ">> }

\* What the tokenizer had read past the last delivered event when it raised.
UnreadRest == { <<>>, <<" ">>, <<"<", "p">> }

HrefsOf(tag) == IF tag = "a" THEN Hrefs ELSE {""}

\* No tree conversion runs while a single document is converted.
NoTree ==
    /\ schema1_data = [title |-> <<>>, folders |-> <<>>, documentsById |-> <<>>,
                       trash |-> [documentIds |-> {}, folderIds |-> {}]]
    /\ tpc = "idle"
    /\ schema2_data = <<>>
    /\ zip_entries = <<>>
    /\ stats = <<>>

Init ==
    /\ target \in {"blocknote", "markdown"}
    /\ pc = "feed"
    /\ events = <<>>
    /\ html = <<>>
    /\ bn = BNInit
    /\ md = MDInit
    /\ result = <<>>
    /\ NoTree

Deliver(e) ==
    /\ events' = Append(events, e)
    /\ html' = html \o RawOf(e)
    /\ UNCHANGED <<target, pc, result, treeVars>>

BN_handle_starttag ==
    \E tag \in BNStartTags : \E href \in HrefsOf(tag) :
        /\ target = "blocknote" /\ pc = "feed" /\ Len(events) < MaxEvents
        /\ bn' = bn_handle_starttag(bn, tag, href)
        /\ Deliver(StartTag(tag, href))
        /\ UNCHANGED md

BN_handle_endtag ==
    \E tag \in BNEndTags :
        /\ target = "blocknote" /\ pc = "feed" /\ Len(events) < MaxEvents
        /\ bn' = bn_handle_endtag(bn, tag)
        /\ Deliver(EndTag(tag))
        /\ UNCHANGED md

BN_handle_data ==
    \E data \in DataPool :
        /\ target = "blocknote" /\ pc = "feed" /\ Len(events) < MaxEvents
        /\ bn' = bn_handle_data(bn, data)
        /\ Deliver(Text(data))
        /\ UNCHANGED md

\* html_to_blocknote returns: [] for an empty input, else the non-empty blocks.
BN_return ==
    /\ target = "blocknote" /\ pc = "feed"
    /\ bn' = IF html = <<>> THEN bn ELSE flush_block(bn)
    /\ result' = IF html = <<>> THEN <<>> ELSE NonEmptyBlocks(get_blocknote_json(bn))
    /\ pc' = "done"
    /\ UNCHANGED <<target, events, html, md, treeVars>>

\* converter.feed raises: the except branch of html_to_blocknote.
BN_fault ==
    \E rest \in UnreadRest :
        /\ target = "blocknote" /\ pc = "feed"
        /\ html \o rest # <<>>
        /\ html' = html \o rest
        /\ result' = blocknote_fallback(html')
        /\ pc' = "fault"
        /\ UNCHANGED <<target, events, bn, md, treeVars>>

MD_handle_starttag ==
    \E tag \in MDStartTags : \E href \in HrefsOf(tag) :
        /\ target = "markdown" /\ pc = "feed" /\ Len(events) < MaxEvents
        /\ md' = md_handle_starttag(md, tag, href)
        /\ Deliver(StartTag(tag, href))
        /\ UNCHANGED bn

MD_handle_endtag ==
    \E tag \in MDEndTags :
        /\ target = "markdown" /\ pc = "feed" /\ Len(events) < MaxEvents
        /\ md' = md_handle_endtag(md, tag)
        /\ Deliver(EndTag(tag))
        /\ UNCHANGED bn

MD_handle_data ==
    \E data \in DataPool :
        /\ target = "markdown" /\ pc = "feed" /\ Len(events) < MaxEvents
        /\ md' = md_handle_data(md, data)
        /\ Deliver(Text(data))
        /\ UNCHANGED bn

\* html_to_markdown returns: '' for an empty input, else the normalized text.
MD_return ==
    /\ target = "markdown" /\ pc = "feed"
    /\ result' = IF html = <<>> THEN <<>> ELSE markdown_result(md)
    /\ pc' = "done"
    /\ UNCHANGED <<target, events, html, bn, md, treeVars>>

\* converter.feed raises: the except branch of html_to_markdown.
MD_fault ==
    \E rest \in UnreadRest :
        /\ target = "markdown" /\ pc = "feed"
        /\ html \o rest # <<>>
        /\ html' = html \o rest
        /\ result' = markdown_fallback(html')
        /\ pc' = "fault"
        /\ UNCHANGED <<target, events, bn, md, treeVars>>

Next ==
    \/ BN_handle_starttag
    \/ BN_handle_endtag
    \/ BN_handle_data
    \/ BN_return
    \/ BN_fault
    \/ MD_handle_starttag
    \/ MD_handle_endtag
    \/ MD_handle_data
    \/ MD_return
    \/ MD_fault

Spec == Init /\ [][Next]_vars

----------------------------------------------------------------------------
(* The tree conversions: both targets on one Schema 1 input *)

\* Number of folders of the input (folder-level inputs).
MaxFolders == 2

\* Length of a folder's documentIds list (document-level inputs).
MaxDocIds == 3

\* documentsById: d4 and d6 have no entry.
DocTable ==
    [d1 |-> [title |-> <<"a", "1", "0">>, status |-> Absent, summary |-> <<>>,
             content |-> <<StartTag("p", ""), Text(<<"x">>), EndTag("p")>>],
     d2 |-> [title |-> <<"A", "2", ".", "m", "d">>, status |-> "active", summary |-> <<"s">>,
             content |-> <<Text(<<"x", " ">>), StartTag("br", ""), Text(<<"x">>)>>],
     d3 |-> [title |-> <<"a", "1">>, status |-> "archived", summary |-> <<>>,
             content |-> <<Text(<<"x">>)>>],
     d5 |-> [title |-> <<"a", "0">>, status |-> "active", summary |-> <<>>,
             content |-> <<Text(<<"x">>)>>],
     d7 |-> [title |-> <<"9">>, status |-> Absent, summary |-> <<>>,
             content |-> <<>>],
     d8 |-> [title |-> <<"B", "1">>, status |-> "active", summary |-> <<>>,
             content |-> <<StartTag("h1", ""), Text(<<"x">>), EndTag("h1")>>]]

DocIds == {"d1", "d2", "d3", "d4", "d5", "d6", "d7", "d8"}

\* trash.documentIds: a document with an entry and one without.
TrashDocIds == {"d5", "d6"}

StatusPool == {Absent, "active", "archived"}
SortPool == {0, 1}

\* documentIds lists of the folder-level inputs: only a trashed document, one
\* document, two documents whose title order differs from their list order.
FolderDocLists == { <<"d5">>, <<"d7">>, <<"d1", "d2">> }

FolderId(i) == <<"f", i>>
FolderTitle(i) == <<" ", "F", "!", " ", "-">> \o IntToStr(i)

SeqsUpTo(S, n) == UNION {[1..k -> S] : k \in 0..n}

Schema1(folders, trash_folder_ids) ==
    [title |-> <<"M", "y", " ", "B">>,
     folders |-> folders,
     documentsById |-> DocTable,
     trash |-> [documentIds |-> TrashDocIds, folderIds |-> trash_folder_ids]]

\* No single-document call runs during a tree conversion.
NoHtml ==
    /\ target = "tree"
    /\ pc = "idle"
    /\ events = <<>>
    /\ html = <<>>
    /\ bn = BNInit
    /\ md = MDInit
    /\ result = <<>>

TreeStart ==
    /\ tpc = "start"
    /\ schema2_data = <<>>
    /\ zip_entries = <<>>
    /\ stats = StatsInit
    /\ NoHtml

\* Folder-level inputs: up to MaxFolders folders, each with any sort value,
\* status and trash membership and one of the documentIds lists.
InitFolders ==
    /\ \E n \in 0..MaxFolders :
       \E sorts \in [1..n -> SortPool] :
       \E statuses \in [1..n -> StatusPool] :
       \E lists \in [1..n -> FolderDocLists] :
       \E trashed \in SUBSET (1..n) :
            schema1_data =
                Schema1([i \in 1..n |->
                            [id |-> FolderId(i), title |-> FolderTitle(i),
                             sort |-> sorts[i], status |-> statuses[i],
                             documentIds |-> lists[i]]],
                        {FolderId(i) : i \in trashed})
    /\ TreeStart

\* Document-level inputs: one folder with any status and trash membership and
\* any documentIds list of up to MaxDocIds ids, repeated ids included.
InitDocs ==
    /\ \E status \in StatusPool :
       \E trashed \in BOOLEAN :
       \E documentIds \in SeqsUpTo(DocIds, MaxDocIds) :
            schema1_data =
                Schema1(<< [id |-> FolderId(1), title |-> FolderTitle(1),
                            sort |-> 0, status |-> status,
                            documentIds |-> documentIds] >>,
                        IF trashed THEN {FolderId(1)} ELSE {})
    /\ TreeStart

\* One call of convert_schema1_to_schema2 on the input.
Convert ==
    /\ tpc \in {"start", "zipped"}
    /\ schema2_data' = convert_schema1_to_schema2(schema1_data)
    /\ tpc' = IF tpc = "start" THEN "converted" ELSE "both"
    /\ UNCHANGED <<schema1_data, zip_entries, stats, htmlVars>>

\* One call of convert_schema1_to_zip on the input.
Zip ==
    /\ tpc \in {"start", "converted"}
    /\ LET out == convert_schema1_to_zip(schema1_data)
       IN  /\ zip_entries' = out.entries
           /\ stats' = out.stats
    /\ tpc' = IF tpc = "start" THEN "zipped" ELSE "both"
    /\ UNCHANGED <<schema1_data, schema2_data, htmlVars>>

NextTree == Convert \/ Zip

SpecFolders == InitFolders /\ [][NextTree]_vars

SpecDocs == InitDocs /\ [][NextTree]_vars

Converted == tpc \in {"converted", "both"}
Zipped == tpc \in {"zipped", "both"}

----------------------------------------------------------------------------
(* Claims about one html_to_blocknote / html_to_markdown call *)

RECURSIVE TextOfEvents(_)
\* The data of the Text events of an event sequence, concatenated.
TextOfEvents(es) ==
    IF es = <<>> THEN <<>>
    ELSE (IF Head(es).kind = "data" THEN Head(es).data ELSE <<>>)
            \o TextOfEvents(Tail(es))

RECURSIVE TextOfRuns(_)
TextOfRuns(runs) ==
    IF runs = <<>> THEN <<>> ELSE Head(runs).text \o TextOfRuns(Tail(runs))

RECURSIVE TextOfBlocks(_)
\* The text of all runs of all blocks, in output order.
TextOfBlocks(bs) ==
    IF bs = <<>> THEN <<>>
    ELSE TextOfRuns(Head(bs).content) \o TextOfBlocks(Tail(bs))

\* C1: when html_to_blocknote returns without a tokenizer fault, the text of
\* all runs of all returned blocks, concatenated in output order, equals the
\* data of all Text events concatenated in document order.
C1_TextPreserved ==
    (target = "blocknote" /\ pc = "done") =>
        TextOfBlocks(result) = TextOfEvents(events)

\* C1 witness: a returned sequence of at least two blocks, one of them a
\* heading, built from text interleaved with tags.
C1_Witness ==
    /\ target = "blocknote" /\ pc = "done"
    /\ Len(result) >= 2
    /\ \E i \in 1..Len(result) : result[i].type = "heading"
    /\ \E i \in 1..Len(result) : result[i].type = "paragraph"
    /\ Len(TextOfEvents(events)) >= 2

RECURSIVE RawOfEvents(_)
\* The raw tokens the delivered events were read from.
RawOfEvents(es) ==
    IF es = <<>> THEN <<>> ELSE RawOf(Head(es)) \o RawOfEvents(Tail(es))

\* The input with its tags removed: the text of the delivered events, then
\* what the tokenizer had read without delivering it (no complete tag).
TagStrippedInput ==
    TextOfEvents(events) \o SubSeq(html, Len(RawOfEvents(events)) + 1, Len(html))

NonWs(s) == {i \in 1..Len(s) : s[i] \notin Whitespace}

\* s from its first to its last non-whitespace character.
Trimmed(s) ==
    IF NonWs(s) = {} THEN <<>>
    ELSE SubSeq(s, CHOOSE i \in NonWs(s) : \A j \in NonWs(s) : i <= j,
                   CHOOSE i \in NonWs(s) : \A j \in NonWs(s) : i >= j)

OneParagraph(text) ==
    << [type |-> "paragraph", level |-> 0,
        content |-> << [text |-> text, styles |-> NoStyles] >>] >>

\* C9 as stated: after a tokenizer fault the structured target returns one
\* paragraph block holding a single unstyled run with the tag-stripped input
\* text when that text has a non-whitespace character and the empty sequence
\* otherwise; the Markdown target returns the tag-stripped input text as it is.
C9_Original ==
    (pc = "fault") =>
        /\ target = "blocknote" =>
              result = IF NonWs(TagStrippedInput) # {}
                       THEN OneParagraph(TagStrippedInput)
                       ELSE <<>>
        /\ target = "markdown" => result = TagStrippedInput

\* C9 amended: as stated, except that the run of the structured target holds
\* the tag-stripped input text with its leading and trailing whitespace
\* removed.  Nothing of the converter's blocks, runs or emitted pieces is in
\* the result: it is a function of the input text alone.
C9_FaultFallback ==
    (pc = "fault") =>
        /\ target = "blocknote" =>
              result = IF NonWs(TagStrippedInput) # {}
                       THEN OneParagraph(Trimmed(TagStrippedInput))
                       ELSE <<>>
        /\ target = "markdown" => result = TagStrippedInput

\* C9 witness: the fault comes after a block was assembled from styled text,
\* and the cleaned text has whitespace inside that the fallback keeps.
C9_Witness ==
    /\ pc = "fault" /\ target = "blocknote"
    /\ bn.blocks # <<>>
    /\ \E i \in 1..Len(bn.blocks) : \E j \in 1..Len(bn.blocks[i].content) :
            bn.blocks[i].content[j].styles.bold
    /\ Len(result) = 1
    /\ \E k \in 1..Len(result[1].content[1].text) :
            result[1].content[1].text[k] \in Whitespace

\* Some run of three consecutive newlines.
HasNewlineRun3(s) ==
    \E i \in 1..(Len(s) - 2) : s[i] = NL /\ s[i + 1] = NL /\ s[i + 2] = NL

\* C10: a string returned by html_to_markdown without a tokenizer fault has
\* no run of three or more newlines and no leading or trailing whitespace.
C10_Normalized ==
    (target = "markdown" /\ pc = "done") =>
        /\ ~HasNewlineRun3(result)
        /\ result # <<>> =>
              (result[1] \notin Whitespace /\ result[Len(result)] \notin Whitespace)

\* C10 witness: the emitted pieces held a run of three or more newlines
\* inside the text and whitespace at an end, and the call returned.
C10_Witness ==
    /\ target = "markdown" /\ pc = "done"
    /\ HasNewlineRun3(get_markdown(md))
    /\ Join(md.result) # get_markdown(md)
    /\ result # <<>>

----------------------------------------------------------------------------
(* Claims about the tree conversions *)

InFolders == schema1_data.folders
OutFolders == schema2_data.folders

\* The document filter, from the input alone.
DocSurvives(doc_id) ==
    /\ doc_id \notin schema1_data.trash.documentIds
    /\ doc_id \in DOMAIN schema1_data.documentsById
    /\ schema1_data.documentsById[doc_id].status \in {Absent, "active"}

\* The folder filter without the document part.
FolderKept(i) ==
    /\ InFolders[i].id \notin schema1_data.trash.folderIds
    /\ InFolders[i].status \in {Absent, "active"}

SurvivingRefs(i) ==
    {k \in 1..Len(InFolders[i].documentIds) : DocSurvives(InFolders[i].documentIds[k])}

FolderSurvives(i) == FolderKept(i) /\ SurvivingRefs(i) # {}

\* What the titles of the inputs come out as: the slug of folder i, the
\* cleaned title of a document and its file name.
SlugOf(i) == <<"f", "-">> \o IntToStr(i)
DirNameOf(i) == SlugOf(i) \o <<"/">>

CleanTitleOf(doc_id) ==
    CASE doc_id = "d1" -> <<"a", "1", "0">>
      [] doc_id = "d2" -> <<"A", "2">>
      [] doc_id = "d3" -> <<"a", "1">>
      [] doc_id = "d5" -> <<"a", "0">>
      [] doc_id = "d7" -> <<"9">>
      [] doc_id = "d8" -> <<"B", "1">>
      [] OTHER -> <<"?">>

FileNameOf(doc_id) == CleanTitleOf(doc_id) \o <<".", "m", "d">>

IsDirEntry(e) == e.name[Len(e.name)] = "/"

\* The names of the directory entries written, in order.
DirNames == LET dirs == SelectSeq(zip_entries, IsDirEntry)
            IN  [k \in 1..Len(dirs) |-> dirs[k].name]

Count(seq, x) == Cardinality({k \in 1..Len(seq) : seq[k] = x})

OutFolderNames == [k \in 1..Len(OutFolders) |-> OutFolders[k].name]

Refs == InFolders[1].documentIds

OutTitles(k) ==
    [d \in 1..Len(OutFolders[k].documents) |-> OutFolders[k].documents[d].title]

EntryNames == [k \in 1..Len(zip_entries) |-> zip_entries[k].name]

\* How many entries of Refs are doc_id and survive the document filter.
SurvivingCount(doc_id) ==
    IF FolderKept(1) /\ DocSurvives(doc_id) THEN Count(Refs, doc_id) ELSE 0

\* C3: in both targets the documents emitted for a folder correspond
\* one-to-one to the entries of its documentIds whose id is not in the
\* trash-document set, has an entry in the lookup table and whose status is
\* absent or "active"; a trashed document is in no output.
C3_DocumentFilter ==
    /\ Converted =>
          /\ Len(OutFolders) <= 1
          /\ \A k \in 1..Len(OutFolders) :
                /\ Len(OutFolders[k].documents) = Cardinality(SurvivingRefs(1))
                /\ \A doc_id \in DocIds :
                      Count(OutTitles(k), CleanTitleOf(doc_id)) = SurvivingCount(doc_id)
          /\ OutFolders = <<>> => ~FolderSurvives(1)
    /\ Zipped =>
          /\ Len(zip_entries) =
                IF FolderSurvives(1) THEN 1 + Cardinality(SurvivingRefs(1)) ELSE 0
          /\ \A doc_id \in DocIds :
                Count(EntryNames, DirNameOf(1) \o FileNameOf(doc_id)) =
                    IF FolderSurvives(1) THEN SurvivingCount(doc_id) ELSE 0

\* C3 witness: a folder that lists a trashed document with status "active",
\* a missing one and a surviving one twice; both targets emit the last twice.
C3_Witness ==
    /\ tpc = "both"
    /\ FolderKept(1)
    /\ \E a, b \in 1..Len(Refs) :
          /\ Refs[a] = "d5" /\ Refs[b] = "d1"
          /\ Count(Refs, "d1") = 2
    /\ Len(OutFolders) = 1 /\ Len(OutFolders[1].documents) = 2
    /\ Len(zip_entries) = 3

\* The input folder an output name comes from.
SourceOfSlug(name) == CHOOSE i \in 1..Len(InFolders) : SlugOf(i) = name
SourceOfDir(name) == CHOOSE i \in 1..Len(InFolders) : DirNameOf(i) = name

\* Folder i comes before folder j: by sort value, then by input position.
FolderBefore(i, j) ==
    \/ InFolders[i].sort < InFolders[j].sort
    \/ InFolders[i].sort = InFolders[j].sort /\ i < j

\* C4: output folders are in ascending order of the input folders' sort
\* value, equal values keeping their input order, in both targets; the order
\* fields of the structured output are 0, 1, ..., n-1 along that sequence.
C4_FolderOrder ==
    /\ Converted =>
          /\ \A k \in 1..Len(OutFolders) : OutFolders[k].order = k - 1
          /\ \A k, l \in 1..Len(OutFolders) :
                k < l => FolderBefore(SourceOfSlug(OutFolders[k].name),
                                      SourceOfSlug(OutFolders[l].name))
    /\ Zipped =>
          \A k, l \in 1..Len(DirNames) :
             k < l => FolderBefore(SourceOfDir(DirNames[k]), SourceOfDir(DirNames[l]))

\* C4 witness: two folders survive and the second input folder, of the
\* smaller sort value, comes out first in both targets.
C4_Witness ==
    /\ tpc = "both"
    /\ Len(OutFolders) = 2
    /\ Len(DirNames) = 2
    /\ SourceOfSlug(OutFolders[1].name) = 2
    /\ SourceOfDir(DirNames[1]) = 2

\* The place of a cleaned title in the natural order of the titles of the
\* document table: "A2" < "a10" < "B1" < "9", the others before them.
NaturalRank(title) ==
    CASE title = <<"a", "0">> -> 0
      [] title = <<"a", "1">> -> 1
      [] title = <<"A", "2">> -> 2
      [] title = <<"a", "1", "0">> -> 3
      [] title = <<"B", "1">> -> 4
      [] title = <<"9">> -> 5
      [] OTHER -> 6

\* C5: in every folder of the structured output the documents are in
\* natural-sort order of their cleaned titles (text case-insensitively,
\* digit runs by value, text before a number), and the i-th has order i.
C5_NaturalOrder ==
    Converted =>
        \A k \in 1..Len(OutFolders) :
           LET docs == OutFolders[k].documents
           IN  /\ \A i \in 1..Len(docs) : docs[i].order = i - 1
               /\ \A i, j \in 1..Len(docs) :
                     i < j => NaturalRank(docs[i].title) <= NaturalRank(docs[j].title)

\* C5 witness: three documents listed against their natural order come out
\* as "A2", "a10", "9" with order 0, 1, 2.
C5_Witness ==
    /\ Converted
    /\ Refs = <<"d7", "d1", "d2">>
    /\ Len(OutFolders) = 1
    /\ OutTitles(1) = << <<"A", "2">>, <<"a", "1", "0">>, <<"9">> >>

RECURSIVE Flatten(_)
Flatten(seqs) == IF seqs = <<>> THEN <<>> ELSE Head(seqs) \o Flatten(Tail(seqs))

\* The input folder indices in processing order.
ProcessingOrder ==
    CHOOSE p \in [1..Len(InFolders) -> 1..Len(InFolders)] :
        \A a, b \in 1..Len(InFolders) : a < b => FolderBefore(p[a], p[b])

\* The entry names folder i contributes: its directory, then one file per
\* surviving document reference in documentIds order.
EntriesOf(i) ==
    IF FolderSurvives(i)
    THEN LET ids == SelectSeq(InFolders[i].documentIds, DocSurvives)
         IN  <<DirNameOf(i)>> \o [k \in 1..Len(ids) |-> DirNameOf(i) \o FileNameOf(ids[k])]
    ELSE <<>>

\* C6: in the entries written by the archive target each surviving folder
\* contributes one directory entry immediately followed by its file entries
\* in documentIds order, and a folder without a surviving document none.
C6_ArchiveEntries ==
    Zipped =>
        EntryNames = Flatten([a \in 1..Len(InFolders) |-> EntriesOf(ProcessingOrder[a])])

\* C6 witness: the second input folder is written first, a folder holds two
\* files whose list order differs from their title order.
C6_Witness ==
    /\ Zipped
    /\ Len(DirNames) = 2
    /\ \E i \in 1..Len(InFolders) :
          FolderSurvives(i) /\ InFolders[i].documentIds = <<"d1", "d2">>
    /\ SourceOfDir(DirNames[1]) = 2

\* All document references of the input, and those of the folders that pass
\* the folder filter.
AllRefs == Flatten([i \in 1..Len(InFolders) |-> InFolders[i].documentIds])
KeptRefs ==
    Flatten([i \in 1..Len(InFolders) |->
                IF FolderKept(i) THEN InFolders[i].documentIds ELSE <<>>])

CountIn(seq, S) == Cardinality({k \in 1..Len(seq) : seq[k] \in S})

MissingIds == DocIds \ DOMAIN schema1_data.documentsById

\* C7 as stated: the counter of documents skipped as missing is the number
\* of ids in the folders' documentIds lists without an entry in the lookup
\* table, the counter of documents skipped as trashed the number of those in
\* the trash-document set.
C7_Original ==
    Zipped =>
        /\ stats.documents_skipped_missing = CountIn(AllRefs, MissingIds)
        /\ stats.documents_skipped_trash =
              CountIn(AllRefs, schema1_data.trash.documentIds)

\* C7 amended: the counters count the documentIds lists of the folders that
\* are not trashed and whose status is absent or "active"; an id in the
\* trash-document set counts as trashed whether or not it has an entry, and
\* an id counts as missing when it has no entry and is not in the trash set.
C7_SkipCounters ==
    Zipped =>
        /\ stats.documents_skipped_trash =
              CountIn(KeptRefs, schema1_data.trash.documentIds)
        /\ stats.documents_skipped_missing =
              CountIn(KeptRefs, MissingIds \ schema1_data.trash.documentIds)

\* C7 witness: a kept folder that lists a missing id, a trashed id without
\* an entry and a trashed id with one.
C7_Witness ==
    /\ Zipped
    /\ FolderKept(1)
    /\ {"d4", "d5", "d6"} \subseteq {Refs[k] : k \in 1..Len(Refs)}
    /\ stats.documents_skipped_trash = 2
    /\ stats.documents_skipped_missing = 1

RECURSIVE SumDocuments(_)
SumDocuments(fs) ==
    IF fs = <<>> THEN 0 ELSE Len(Head(fs).documents) + SumDocuments(Tail(fs))

\* C8: number_of_chapters is the total number of documents of all output
\* folders when that is at least one, and None when no document survives.
C8_NumberOfChapters ==
    Converted =>
        schema2_data.number_of_chapters =
            IF SumDocuments(OutFolders) >= 1 THEN <<SumDocuments(OutFolders)>> ELSE <<>>

\* C8 witness: two output folders with three documents between them.
C8_Witness ==
    /\ Converted
    /\ Len(OutFolders) = 2
    /\ schema2_data.number_of_chapters = <<3>>

----------------------------------------------------------------------------
(* One document converted as a whole by each target *)

\* Number of blocks of the document converted.
MaxBlocks == 2

\* The blocks a document is made of: a heading or a paragraph whose parts are
\* plain or bold text.
Plain(text) == [bold |-> FALSE, text |-> text]
Bold(text) == [bold |-> TRUE, text |-> text]

BlockPool ==
    { [tag |-> "h2", parts |-> << Plain(<<"T", "i", "t", "l", "e">>) >>],
      [tag |-> "h1", parts |-> << Plain(<<"x">>) >>],
      [tag |-> "p",  parts |-> << Plain(<<"A", " ">>), Bold(<<"b", "o", "l", "d">>),
                                  Plain(<<" ", "w", "o", "r", "d", ".">>) >>],
      [tag |-> "p",  parts |-> << Plain(<<"h", "e", "l", "l", "o", " ">>),
                                  Bold(<<"w", "o", "r", "l", "d">>) >>],
      [tag |-> "p",  parts |-> << Plain(<<"x">>), Bold(<<"y">>) >>],
      [tag |-> "p",  parts |-> << >>] }

RECURSIVE EventsOfParts(_)
\* The events the tokenizer delivers for the inside of a block.
EventsOfParts(parts) ==
    IF parts = <<>> THEN <<>>
    ELSE (IF Head(parts).bold
          THEN <<StartTag("strong", ""), Text(Head(parts).text), EndTag("strong")>>
          ELSE <<Text(Head(parts).text)>>)
            \o EventsOfParts(Tail(parts))

RECURSIVE EventsOfBlocks(_)
\* The events the tokenizer delivers for <tag>...</tag>, block after block.
EventsOfBlocks(blocks) ==
    IF blocks = <<>> THEN <<>>
    ELSE <<StartTag(Head(blocks).tag, "")>> \o EventsOfParts(Head(blocks).parts)
            \o <<EndTag(Head(blocks).tag)>> \o EventsOfBlocks(Tail(blocks))

\* A Schema 1 document with the given content.
DocumentOf(content) ==
    [title |-> <<"T">>, status |-> Absent, summary |-> <<>>, content |-> content]

\* The input: one document, made of up to MaxBlocks blocks, not yet converted.
InitDocument ==
    /\ \E blocks \in SeqsUpTo(BlockPool, MaxBlocks) :
          /\ events = EventsOfBlocks(blocks)
          /\ schema1_data =
                [title |-> <<>>, folders |-> <<>>,
                 documentsById |-> [d1 |-> DocumentOf(EventsOfBlocks(blocks))],
                 trash |-> [documentIds |-> {}, folderIds |-> {}]]
    /\ target = "document"
    /\ pc = "call"
    /\ html = <<>>
    /\ bn = BNInit
    /\ md = MDInit
    /\ result = <<>>
    /\ tpc = "idle"
    /\ schema2_data = <<>>
    /\ zip_entries = <<>>
    /\ stats = <<>>

\* convert_document on the document: its blocks and its word count.
ConvertDocument ==
    /\ target = "document" /\ pc = "call"
    /\ bn' = bn_feed(BNInit, schema1_data.documentsById.d1.content)
    /\ result' = convert_document(schema1_data.documentsById.d1, 0)
    /\ pc' = "converted"
    /\ UNCHANGED <<target, events, html, md, treeVars>>

\* html_to_markdown on the content of the document, as the archive target
\* calls it.
RenderDocument ==
    /\ target = "document" /\ pc = "call"
    /\ md' = md_feed(MDInit, schema1_data.documentsById.d1.content)
    /\ result' = html_to_markdown(schema1_data.documentsById.d1.content)
    /\ pc' = "rendered"
    /\ UNCHANGED <<target, events, html, bn, treeVars>>

NextDocument == ConvertDocument \/ RenderDocument

SpecDocument == InitDocument /\ [][NextDocument]_vars

----------------------------------------------------------------------------
(* Claims about one document converted as a whole *)

\* The blocks of the input document, read back from its events.
RECURSIVE PartsOfEvents(_)
PartsOfEvents(es) ==
    IF es = <<>> \/ Head(es).kind = "end" THEN <<>>
    ELSE IF Head(es).kind = "start"
         THEN <<Bold(es[2].data)>> \o PartsOfEvents(SubSeq(es, 4, Len(es)))
         ELSE <<Plain(Head(es).data)>> \o PartsOfEvents(Tail(es))

RECURSIVE RenderedParts(_)
\* Bold text between two "**", plain text as it is.
RenderedParts(parts) ==
    IF parts = <<>> THEN <<>>
    ELSE (IF Head(parts).bold
          THEN <<"*", "*">> \o Head(parts).text \o <<"*", "*">>
          ELSE Head(parts).text)
            \o RenderedParts(Tail(parts))

\* Index of the end tag that closes the block opened by the first event.
RECURSIVE BlockEnd(_, _)
BlockEnd(es, i) ==
    IF es[i].kind = "end" /\ es[i].tag = es[1].tag THEN i ELSE BlockEnd(es, i + 1)

RECURSIVE RenderedBlocks(_)
\* The expected Markdown of each block: a heading of level N is N "#", a
\* space, and its text; a paragraph is its text.
RenderedBlocks(es) ==
    IF es = <<>> THEN <<>>
    ELSE LET j == BlockEnd(es, 2)
             inside == RenderedParts(PartsOfEvents(SubSeq(es, 2, j)))
             block == IF es[1].tag \in Headings
                      THEN [n \in 1..Level(es[1].tag) |-> "#"] \o <<" ">> \o inside
                      ELSE inside
         IN  <<block>> \o RenderedBlocks(SubSeq(es, j + 1, Len(es)))

RECURSIVE EmittedBlocks(_)
\* The blocks as emitted: each followed by the two newlines of its end tag.
EmittedBlocks(blocks) ==
    IF blocks = <<>> THEN <<>>
    ELSE Head(blocks) \o <<NL, NL>> \o EmittedBlocks(Tail(blocks))

NonEmptyTexts(blocks) == SelectSeq(blocks, LAMBDA b : b # <<>>)

RECURSIVE BlankLineSeparated(_)
\* The blocks with one blank line (two newlines) between consecutive blocks.
BlankLineSeparated(blocks) ==
    IF blocks = <<>> THEN <<>>
    ELSE IF Len(blocks) = 1 THEN blocks[1]
    ELSE blocks[1] \o <<NL, NL>> \o BlankLineSeparated(Tail(blocks))

\* C11: for a document made of headings and paragraphs the emitter emits,
\* block after block, N "#" characters and one space for a heading start tag
\* hN, "**" for a bold start tag and for a bold end tag, the text as it is and
\* two newlines for the heading or paragraph end tag; the Markdown returned is
\* the non-empty blocks separated by exactly one blank line, trimmed.
C11_MarkdownShape ==
    (target = "document" /\ pc = "rendered") =>
        /\ Join(md.result) = EmittedBlocks(RenderedBlocks(events))
        /\ result = Trimmed(BlankLineSeparated(NonEmptyTexts(RenderedBlocks(events))))

\* C11 witness: <h2>Title</h2><p>A <strong>bold</strong> word.</p> came out
\* as "## Title", a blank line, "A **bold** word.".
C11_Witness ==
    /\ target = "document" /\ pc = "rendered"
    /\ events = EventsOfBlocks(<< [tag |-> "h2", parts |-> << Plain(<<"T", "i", "t", "l", "e">>) >>],
                                  [tag |-> "p", parts |-> << Plain(<<"A", " ">>),
                                        Bold(<<"b", "o", "l", "d">>),
                                        Plain(<<" ", "w", "o", "r", "d", ".">>) >>] >>)
    /\ result = <<"#", "#", " ", "T", "i", "t", "l", "e", NL, NL,
                  "A", " ", "*", "*", "b", "o", "l", "d", "*", "*",
                  " ", "w", "o", "r", "d", ".">>

RECURSIVE AllRuns(_)
\* The text runs of all blocks, in order.
AllRuns(blocks) ==
    IF blocks = <<>> THEN <<>> ELSE Head(blocks).content \o AllRuns(Tail(blocks))

RECURSIVE SpacedText(_)
\* The texts of the runs with a single space between consecutive runs.
SpacedText(runs) ==
    IF runs = <<>> THEN <<>>
    ELSE IF Len(runs) = 1 THEN runs[1].text
    ELSE runs[1].text \o <<" ">> \o SpacedText(Tail(runs))

RECURSIVE Tokens(_, _)
\* The number of whitespace-delimited tokens of s, read left to right;
\* inside is TRUE while a token is being read.
Tokens(s, inside) ==
    IF s = <<>> THEN 0
    ELSE IF Head(s) \in Whitespace THEN Tokens(Tail(s), FALSE)
    ELSE (IF inside THEN 0 ELSE 1) + Tokens(Tail(s), TRUE)

\* C14: the word_count of a converted document is the number of
\* whitespace-delimited tokens of the texts of all text runs of all blocks of
\* its content joined, in order, with a single space between consecutive runs.
C14_WordCount ==
    (target = "document" /\ pc = "converted") =>
        result.word_count = Tokens(SpacedText(AllRuns(result.content)), FALSE)

\* C14 witness: one paragraph whose two runs are "hello " and "world" has
\* word count 2.
C14_Witness ==
    /\ target = "document" /\ pc = "converted"
    /\ Len(result.content) = 1
    /\ result.content[1].type = "paragraph"
    /\ Len(result.content[1].content) = 2
    /\ result.content[1].content[1].text = <<"h", "e", "l", "l", "o", " ">>
    /\ result.content[1].content[2].text = <<"w", "o", "r", "l", "d">>
    /\ result.word_count = 2

----------------------------------------------------------------------------
(* One html_to_markdown call over links and lists, event by event *)

\* Number of Markup Events fed to the emitter.
MaxEmitterEvents == 5

\* Vocabulary of the event streams explored.
EmitterStartTags == {"a", "ul", "ol", "li"}
EmitterEndTags   == {"a", "ul", "ol", "li"}
EmitterHrefs     == {"u", "v"}
EmitterData      == { <<"x">> }

InitEmitter ==
    /\ target = "markdown"
    /\ pc = "feed"
    /\ events = <<>>
    /\ html = <<>>
    /\ bn = BNInit
    /\ md = MDInit
    /\ result = <<>>
    /\ NoTree

Emitter_handle_starttag ==
    \E tag \in EmitterStartTags :
    \E href \in (IF tag = "a" THEN EmitterHrefs ELSE {""}) :
        /\ target = "markdown" /\ pc = "feed" /\ Len(events) < MaxEmitterEvents
        /\ md' = md_handle_starttag(md, tag, href)
        /\ Deliver(StartTag(tag, href))
        /\ UNCHANGED bn

Emitter_handle_endtag ==
    \E tag \in EmitterEndTags :
        /\ target = "markdown" /\ pc = "feed" /\ Len(events) < MaxEmitterEvents
        /\ md' = md_handle_endtag(md, tag)
        /\ Deliver(EndTag(tag))
        /\ UNCHANGED bn

Emitter_handle_data ==
    \E data \in EmitterData :
        /\ target = "markdown" /\ pc = "feed" /\ Len(events) < MaxEmitterEvents
        /\ md' = md_handle_data(md, data)
        /\ Deliver(Text(data))
        /\ UNCHANGED bn

NextEmitter ==
    \/ Emitter_handle_starttag
    \/ Emitter_handle_endtag
    \/ Emitter_handle_data
    \/ MD_return

SpecEmitter == InitEmitter /\ [][NextEmitter]_vars

----------------------------------------------------------------------------
(* Claims about links and lists in the Markdown emitter *)

\* The events before the last one, and the last one.
Front(es) == SubSeq(es, 1, Len(es) - 1)
Last(es) == es[Len(es)]

ListTags == {"ul", "ol"}

RECURSIVE OpenLists(_)
\* The lists open after the events es, outermost first: the type of each and
\* the number of li start tags whose nearest enclosing open list it is.
OpenLists(es) ==
    IF es = <<>> THEN <<>>
    ELSE LET st == OpenLists(Front(es))
             e == Last(es)
         IN  CASE e.kind = "start" /\ e.tag \in ListTags ->
                    Append(st, [type |-> e.tag, items |-> 0])
               [] e.kind = "start" /\ e.tag = "li" /\ st # <<>> ->
                    [st EXCEPT ![Len(st)].items = @ + 1]
               [] e.kind = "end" /\ e.tag \in ListTags /\ st # <<>> ->
                    Front(st)
               [] OTHER -> st

\* Every list end tag of es closes the innermost open list, of its type.
WellNested(es) ==
    \A k \in 1..Len(es) :
        (es[k].kind = "end" /\ es[k].tag \in ListTags) =>
            LET st == OpenLists(SubSeq(es, 1, k - 1))
            IN  st # <<>> /\ Last(st).type = es[k].tag

\* The last event delivered is an li start tag whose nearest enclosing open
\* list is of the given type, in a well-nested stream.
ItemOf(type) ==
    /\ target = "markdown" /\ events # <<>>
    /\ Last(events) = StartTag("li", "")
    /\ WellNested(events)
    /\ OpenLists(Front(events)) # <<>>
    /\ Last(OpenLists(Front(events))).type = type

\* C12 as stated: the n-th li start tag of an ordered list emits the prefix
\* "n. ", so that the items of the list are numbered 1, 2, 3, ... in order.
C12_Original ==
    ItemOf("ol") =>
        Last(md.result) =
            IntToStr(Last(OpenLists(Front(events))).items + 1) \o <<".", " ">>

\* C20 as stated: an li start tag whose nearest enclosing open list is a ul
\* emits "- " and leaves the ordered counter unchanged, whatever list start
\* and end tags came before it.
C20_Original ==
    ItemOf("ul") =>
        /\ Last(md.result) = <<"-", " ">>
        /\ md.list_item_count = md_feed(MDInit, Front(events)).list_item_count

IsOpener(piece) == piece = <<"[">>
IsCloser(piece) == Len(piece) = 4 /\ piece[1] = "]" /\ piece[2] = "("

RECURSIVE LinkPieces(_, _)
\* What the link tags of es emit under stack discipline, given the hrefs
\* pending before es (the most recent last): "[" for a start tag, "](href)"
\* with the most recent pending href for an end tag, nothing for an end tag
\* with no pending href.
LinkPieces(es, pending) ==
    IF es = <<>> THEN <<>>
    ELSE LET e == Head(es)
         IN  IF e.tag = "a" /\ e.kind = "start"
             THEN << <<"[">> >> \o LinkPieces(Tail(es), Append(pending, e.href))
             ELSE IF e.tag = "a" /\ e.kind = "end" /\ pending # <<>>
             THEN << <<"]", "(", Last(pending), ")">> >>
                    \o LinkPieces(Tail(es), Front(pending))
             ELSE LinkPieces(Tail(es), pending)

RECURSIVE PendingHrefs(_)
\* The hrefs pushed and not yet popped after es, the most recent last.
PendingHrefs(es) ==
    IF es = <<>> THEN <<>>
    ELSE LET e == Last(es)
             before == PendingHrefs(Front(es))
         IN  IF e.tag = "a" /\ e.kind = "start" THEN Append(before, e.href)
             ELSE IF e.tag = "a" /\ e.kind = "end" /\ before # <<>> THEN Front(before)
             ELSE before

\* C19: at every point of the stream the pending link targets are a stack:
\* the link pieces emitted so far are "[" for each link start tag and
\* "](href)" with the most recently pushed href not yet popped for each link
\* end tag, nothing for a link end tag with no pending href; the closers
\* emitted never outnumber the openers.
C19_LinkStack ==
    (target = "markdown") =>
        /\ SelectSeq(md.result, LAMBDA piece : IsOpener(piece) \/ IsCloser(piece))
              = LinkPieces(events, <<>>)
        /\ [i \in 1..Len(md.current_text) |-> md.current_text[i].href]
              = PendingHrefs(events)
        /\ Len(SelectSeq(md.result, IsCloser)) <= Len(SelectSeq(md.result, IsOpener))

\* C19 witness: two links opened with different hrefs, then three link end
\* tags: the inner href is closed first, the outer next, the third end tag
\* emits nothing.
C19_Witness ==
    /\ target = "markdown"
    /\ events = <<StartTag("a", "u"), StartTag("a", "v"),
                  EndTag("a"), EndTag("a"), EndTag("a")>>
    /\ md.result = << <<"[">>, <<"[">>, <<"]", "(", "v", ")">>, <<"]", "(", "u", ")">> >>
    /\ md.current_text = <<>>

----------------------------------------------------------------------------
(* The folder slug transforms applied to a title, then to their own result *)

\* Length of the title.
MaxTitleLen == 4

\* Letters of both cases, a digit, underscore, hyphen, whitespace, punctuation.
TitleAlphabet == {"a", "B", "1", "_", "-", " ", "!"}

\* The slug transform of the target: slugify_folder_name of the structured
\* converter or slugify_folder of the archive converter.
slugify(title) ==
    IF target = "slugify_folder_name"
    THEN slugify_folder_name(title)
    ELSE slugify_folder(title)

InitSlug ==
    /\ target \in {"slugify_folder_name", "slugify_folder"}
    /\ \E title \in SeqsUpTo(TitleAlphabet, MaxTitleLen) :
          schema1_data =
              [title |-> <<>>,
               folders |-> << [id |-> FolderId(1), title |-> title, sort |-> 0,
                               status |-> Absent, documentIds |-> <<>>] >>,
               documentsById |-> <<>>,
               trash |-> [documentIds |-> {}, folderIds |-> {}]]
    /\ pc = "call"
    /\ events = <<>>
    /\ html = <<>>
    /\ bn = BNInit
    /\ md = MDInit
    /\ result = <<>>
    /\ tpc = "idle"
    /\ schema2_data = <<>>
    /\ zip_entries = <<>>
    /\ stats = <<>>

\* The transform applied to the title of the folder.
Slugify ==
    /\ target \in {"slugify_folder_name", "slugify_folder"} /\ pc = "call"
    /\ result' = slugify(schema1_data.folders[1].title)
    /\ pc' = "once"
    /\ UNCHANGED <<target, events, html, bn, md, treeVars>>

\* The transform applied to the slug it returned.
SlugifyAgain ==
    /\ target \in {"slugify_folder_name", "slugify_folder"} /\ pc = "once"
    /\ result' = slugify(result)
    /\ pc' = "twice"
    /\ UNCHANGED <<target, events, html, bn, md, treeVars>>

NextSlug == Slugify \/ SlugifyAgain

SpecSlug == InitSlug /\ [][NextSlug]_vars

----------------------------------------------------------------------------
(* Claims about the slug transforms *)

SlugTitle == schema1_data.folders[1].title

\* Lowercase word characters separated by single hyphens, no hyphen at
\* either end.
InSlugForm(t) ==
    /\ \A i \in 1..Len(t) :
          t[i] \in Range(LowerCase) \cup Range(Digits) \cup {"_", "-"}
    /\ \A i \in 1..(Len(t) - 1) : ~(t[i] = "-" /\ t[i + 1] = "-")
    /\ t # <<>> => (t[1] # "-" /\ t[Len(t)] # "-")

\* C13: the folder slug transform is idempotent, slug(slug(t)) = slug(t),
\* and a title already in slug form is returned unchanged.
C13_SlugIdempotent ==
    /\ (target \in {"slugify_folder_name", "slugify_folder"} /\ pc = "twice") =>
          result = slugify(SlugTitle)
    /\ (target \in {"slugify_folder_name", "slugify_folder"} /\ pc = "once"
            /\ InSlugForm(SlugTitle)) =>
          result = SlugTitle

\* C13 witness: a title with an upper-case letter, whitespace and
\* punctuation, whose slug differs from it, went through the transform twice.
C13_Witness ==
    /\ target = "slugify_folder_name" /\ pc = "twice"
    /\ SlugTitle = <<"B", "!", " ", "1">>
    /\ result = <<"b", "-", "1">>

----------------------------------------------------------------------------
(* Claims about the blocks and runs of the block assembler *)

IsHeadingStart(e) == e.kind = "start" /\ e.tag \in Headings
IsHeadingEnd(e) == e.kind = "end" /\ e.tag \in Headings

\* The positions of events, before the last one, that hold a heading tag.
HeadingTagsBefore == {i \in 1..(Len(events) - 1) :
                        IsHeadingStart(events[i]) \/ IsHeadingEnd(events[i])}

\* The last event is a heading end tag and the most recent heading tag before
\* it is a heading start tag: the heading opened there is closed now.
HeadingClosed ==
    /\ target = "blocknote" /\ pc = "feed" /\ events # <<>>
    /\ IsHeadingEnd(Last(events))
    /\ HeadingTagsBefore # {}
    /\ IsHeadingStart(events[CHOOSE i \in HeadingTagsBefore :
                                \A j \in HeadingTagsBefore : j <= i])

\* The position of the start tag of the heading closed by the last event.
HeadingOpenedAt ==
    CHOOSE i \in HeadingTagsBefore : \A j \in HeadingTagsBefore : j <= i

\* C15 as stated: when a heading end tag closes the heading opened by a start
\* tag hN, the block appended is a heading of level N whose content holds
\* every Text event received in between, whatever other tags occurred in
\* between; none of that text is in a paragraph block.
C15_Original ==
    HeadingClosed =>
        /\ bn.blocks # <<>>
        /\ Last(bn.blocks).type = "heading"
        /\ Last(bn.blocks).level = Level(events[HeadingOpenedAt].tag)
        /\ TextOfRuns(Last(bn.blocks).content) =
              TextOfEvents(SubSeq(events, HeadingOpenedAt + 1, Len(events) - 1))

\* C16: every block returned by html_to_blocknote has at least one text run
\* and every text run has non-empty text; a paragraph is never appended to
\* the block list without runs, while a heading is appended on its end tag
\* even when it has no runs, and the final filter removes it.
C16_NonEmptyBlocks ==
    (target = "blocknote") =>
        /\ (pc \in {"done", "fault"}) =>
              \A i \in 1..Len(result) :
                  /\ result[i].content # <<>>
                  /\ \A j \in 1..Len(result[i].content) :
                        result[i].content[j].text # <<>>
        /\ \A i \in 1..Len(bn.blocks) :
              bn.blocks[i].type = "paragraph" => bn.blocks[i].content # <<>>
        /\ HeadingClosed =>
              /\ bn.blocks # <<>>
              /\ Last(bn.blocks).type = "heading"
              /\ Last(bn.blocks).level = Level(events[HeadingOpenedAt].tag)

\* C16 witness: a heading without runs is in the block list of the converter,
\* and the blocks returned are the others.
C16_Witness ==
    /\ target = "blocknote" /\ pc = "done"
    /\ \E i \in 1..Len(bn.blocks) :
          bn.blocks[i].type = "heading" /\ bn.blocks[i].content = <<>>
    /\ result # <<>>
    /\ Len(result) < Len(bn.blocks)

----------------------------------------------------------------------------
(* One html_to_blocknote call over inline style tags, event by event *)

\* Number of Markup Events fed to the block assembler.
MaxStyleEvents == 4

\* Vocabulary of the event streams explored: both names of bold and italic.
StyleStartTags == {"strong", "i", "u", "a", "p"}
StyleEndTags   == {"b", "em", "u", "a"}
StyleHrefs     == {"u", "v"}
StyleData      == { <<"x">> }

InitStyles ==
    /\ target = "blocknote"
    /\ pc = "feed"
    /\ events = <<>>
    /\ html = <<>>
    /\ bn = BNInit
    /\ md = MDInit
    /\ result = <<>>
    /\ NoTree

Styles_handle_starttag ==
    \E tag \in StyleStartTags :
    \E href \in (IF tag = "a" THEN StyleHrefs ELSE {""}) :
        /\ target = "blocknote" /\ pc = "feed" /\ Len(events) < MaxStyleEvents
        /\ bn' = bn_handle_starttag(bn, tag, href)
        /\ Deliver(StartTag(tag, href))
        /\ UNCHANGED md

Styles_handle_endtag ==
    \E tag \in StyleEndTags :
        /\ target = "blocknote" /\ pc = "feed" /\ Len(events) < MaxStyleEvents
        /\ bn' = bn_handle_endtag(bn, tag)
        /\ Deliver(EndTag(tag))
        /\ UNCHANGED md

Styles_handle_data ==
    \E data \in StyleData :
        /\ target = "blocknote" /\ pc = "feed" /\ Len(events) < MaxStyleEvents
        /\ bn' = bn_handle_data(bn, data)
        /\ Deliver(Text(data))
        /\ UNCHANGED md

NextStyles ==
    \/ Styles_handle_starttag
    \/ Styles_handle_endtag
    \/ Styles_handle_data
    \/ BN_return

SpecStyles == InitStyles /\ [][NextStyles]_vars

----------------------------------------------------------------------------
(* Claims about the style set of the block assembler *)

\* The position of the last start or end tag of es with one of the names, 0
\* when there is none.
LastTag(es, names) ==
    LET at == {i \in 1..Len(es) : es[i].kind \in {"start", "end"} /\ es[i].tag \in names}
    IN  IF at = {} THEN 0 ELSE CHOOSE i \in at : \A j \in at : j <= i

\* An attribute is set when the last tag of its names is a start tag.
SetBy(es, names) ==
    LastTag(es, names) # 0 /\ es[LastTag(es, names)].kind = "start"

\* The flat style set after the events es.
ActiveStyles(es) ==
    [bold |-> SetBy(es, {"strong", "b"}),
     italic |-> SetBy(es, {"em", "i"}),
     underline |-> SetBy(es, {"u"}),
     link |-> IF SetBy(es, {"a"}) THEN es[LastTag(es, {"a"})].href ELSE NoLink]

\* C18: the style set is flat: an attribute is set exactly when the last tag
\* for it was a start tag, however many start tags preceded an end tag and
\* whether or not the attribute was set; the pending href is the href of the
\* last link start tag.
C18_FlatStyles ==
    (target = "blocknote") => bn.current_styles = ActiveStyles(events)

\* C18 witness: two bold start tags and one bold end tag, then text: the text
\* is not bold.
C18_Witness ==
    /\ target = "blocknote" /\ pc = "done"
    /\ events = <<StartTag("strong", ""), StartTag("strong", ""), EndTag("b"), Text(<<"x">>)>>
    /\ Len(result) = 1
    /\ result[1].content = << [text |-> <<"x">>, styles |-> NoStyles] >>

RECURSIVE StyledChars(_)
\* Every character of the runs, in order, with the styles recorded in its run.
StyledChars(runs) ==
    IF runs = <<>> THEN <<>>
    ELSE [i \in 1..Len(Head(runs).text) |->
                [char |-> Head(runs).text[i], styles |-> Head(runs).styles]]
            \o StyledChars(Tail(runs))

RECURSIVE ReceivedChars(_)
\* Every character of the Text events of es, in order, with the style set
\* that was active when it was received.
ReceivedChars(es) ==
    IF es = <<>> THEN <<>>
    ELSE ReceivedChars(Front(es)) \o
            (IF Last(es).kind = "data"
             THEN [i \in 1..Len(Last(es).data) |->
                        [char |-> Last(es).data[i], styles |-> ActiveStyles(Front(es))]]
             ELSE <<>>)

\* The runs created so far: those of the blocks, then those of the block
\* being assembled.
RunsSoFar == AllRuns(bn.blocks) \o bn.current_content

\* C17: the styles recorded in a text run are the style set that was active
\* when each of its characters was received, in every state: no run spans a
\* style change, and a later style change leaves the runs already created
\* as they were.  The text not yet flushed is the text received since.
C17_RunStyles ==
    (target = "blocknote") =>
        /\ StyledChars(RunsSoFar) \o
              [i \in 1..Len(Join(bn.pending_text)) |->
                    [char |-> Join(bn.pending_text)[i], styles |-> bn.current_styles]]
              = ReceivedChars(events)
        /\ pc = "done" => StyledChars(AllRuns(result)) = ReceivedChars(events)

\* C17 witness: bold text, a bold end tag, plain text: two runs in one block,
\* the first bold and the second not.
C17_Witness ==
    /\ target = "blocknote" /\ pc = "done"
    /\ events = <<StartTag("strong", ""), Text(<<"x">>), EndTag("b"), Text(<<"x">>)>>
    /\ Len(result) = 1
    /\ result[1].content =
          << [text |-> <<"x">>, styles |-> [NoStyles EXCEPT !.bold = TRUE]],
             [text |-> <<"x">>, styles |-> NoStyles] >>

----------------------------------------------------------------------------
(* One html_to_blocknote call over block tags and unhandled tags *)

\* Number of Markup Events fed to the block assembler.
MaxBoundaryEvents == 4

\* Vocabulary of the event streams explored: block tags, bold, and tags the
\* handlers have no branch for.
BoundaryStartTags == {"p", "br", "h2", "strong", "li", "pre"}
BoundaryEndTags   == {"p", "h2", "b", "li", "blockquote"}
BoundaryData      == { <<"x">> }

InitBoundaries ==
    /\ target = "blocknote"
    /\ pc = "feed"
    /\ events = <<>>
    /\ html = <<>>
    /\ bn = BNInit
    /\ md = MDInit
    /\ result = <<>>
    /\ NoTree

Boundaries_handle_starttag ==
    \E tag \in BoundaryStartTags :
        /\ target = "blocknote" /\ pc = "feed" /\ Len(events) < MaxBoundaryEvents
        /\ bn' = bn_handle_starttag(bn, tag, "")
        /\ Deliver(StartTag(tag, ""))
        /\ UNCHANGED md

Boundaries_handle_endtag ==
    \E tag \in BoundaryEndTags :
        /\ target = "blocknote" /\ pc = "feed" /\ Len(events) < MaxBoundaryEvents
        /\ bn' = bn_handle_endtag(bn, tag)
        /\ Deliver(EndTag(tag))
        /\ UNCHANGED md

Boundaries_handle_data ==
    \E data \in BoundaryData :
        /\ target = "blocknote" /\ pc = "feed" /\ Len(events) < MaxBoundaryEvents
        /\ bn' = bn_handle_data(bn, data)
        /\ Deliver(Text(data))
        /\ UNCHANGED md

NextBoundaries ==
    \/ Boundaries_handle_starttag
    \/ Boundaries_handle_endtag
    \/ Boundaries_handle_data
    \/ BN_return

SpecBoundaries == InitBoundaries /\ [][NextBoundaries]_vars

----------------------------------------------------------------------------
(* Claims about block tags and unhandled tags in the block assembler *)

\* The tags the block assembler has a branch for.
HandledTags == {"p", "br", "strong", "b", "em", "i", "u", "a"} \cup Headings

IsUnhandledTag(e) == e.kind \in {"start", "end"} /\ e.tag \notin HandledTags

\* The step delivers one more event, and that event satisfies P.
Delivers(P(_)) ==
    /\ Len(events') = Len(events) + 1
    /\ P(events'[Len(events')])

RECURSIVE DataMerged(_)
\* The events with every unhandled tag removed and the Text events that
\* become adjacent merged into one.
DataMerged(es) ==
    IF es = <<>> THEN <<>>
    ELSE LET rest == DataMerged(Tail(es))
             e == Head(es)
         IN  IF IsUnhandledTag(e) THEN rest
             ELSE IF e.kind = "data" /\ rest # <<>> /\ Head(rest).kind = "data"
             THEN <<Text(e.data \o Head(rest).data)>> \o Tail(rest)
             ELSE <<e>> \o rest

\* C21: a start or end tag the block assembler does not handle leaves the
\* whole assembler state unchanged, and the blocks returned are those of the
\* stream without these tags, the text on both sides of a removed tag being
\* one Text event: one run.
C21_UnhandledTagsFrame ==
    /\ [][(target = "blocknote" /\ Delivers(IsUnhandledTag)) => bn' = bn]_vars
    /\ []((target = "blocknote" /\ pc = "done" /\ events # <<>>) =>
              result = html_to_blocknote(DataMerged(events)))

\* C21 witness: text, an unhandled start tag, text, an unhandled end tag:
\* one block with one run holding both texts.
C21_Witness ==
    /\ target = "blocknote" /\ pc = "done"
    /\ events = <<Text(<<"x">>), StartTag("li", ""), Text(<<"x">>), EndTag("li")>>
    /\ Len(result) = 1
    /\ result[1].content = << [text |-> <<"x", "x">>, styles |-> NoStyles] >>

\* A block boundary: a p start or end tag, a br start tag, a heading start
\* or end tag.
IsBlockBoundary(e) ==
    \/ e.kind \in {"start", "end"} /\ e.tag \in {"p"} \cup Headings
    \/ e.kind = "start" /\ e.tag = "br"

\* The positions of the bold start tags after which no bold end tag follows.
OpenBold ==
    {i \in 1..Len(events) :
        /\ events[i] = StartTag("strong", "") \/ events[i] = StartTag("b", "")
        /\ \A j \in (i + 1)..Len(events) :
              ~(events[j].kind = "end" /\ events[j].tag \in {"strong", "b"})}

\* C22: a block boundary (p start or end, br, heading start or end) and the
\* end of input leave the style set as it is, so every character received
\* after a bold start tag that is not closed is in a bold run of the blocks
\* returned, whatever block boundaries lie in between.
C22_BoundariesKeepStyles ==
    /\ [][(target = "blocknote" /\ (Delivers(IsBlockBoundary) \/ pc' = "done"))
            => bn'.current_styles = bn.current_styles]_vars
    /\ []((target = "blocknote" /\ pc = "done") =>
            \A i \in OpenBold :
                LET chars == StyledChars(AllRuns(result))
                    before == Len(TextOfEvents(SubSeq(events, 1, i)))
                IN  \A k \in (before + 1)..Len(chars) : chars[k].styles.bold)

\* C22 witness: bold opened in a first block and never closed; the text
\* received after the heading start tag that ends that block is bold as well.
C22_Witness ==
    /\ target = "blocknote" /\ pc = "done"
    /\ events = <<StartTag("strong", ""), Text(<<"x">>), StartTag("h2", ""), Text(<<"x">>)>>
    /\ Len(result) = 2
    /\ \A i \in 1..2 :
          result[i].content = << [text |-> <<"x">>, styles |-> [NoStyles EXCEPT !.bold = TRUE]] >>

====
